---- MODULE Spec2Model ----
(***************************************************************************)
(* Morris-Lecar notebook (src/main.ipynb): the simulation driver           *)
(* solve_model, the crossing extractor analyze_data, and the two           *)
(* notebook handlers interactive_plot and save_plot that share the global  *)
(* current_plot_state.                                                     *)
(*                                                                         *)
(* Numbers.  Python floats are represented in fixed point: the integer x   *)
(* stands for x / Scale.  np.tanh and np.cosh have no TLA+ counterpart and *)
(* are replaced by Tanh and Cosh below (saturating line, second-order      *)
(* polynomial).  LSODA is replaced by a first-order extrapolation from the *)
(* initial state (odeint below); what is kept of scipy's odeint is its     *)
(* interface: one output row per grid point, row 0 equal to y0, rows that  *)
(* depend on the derivative function, y0, t and args only, and, when the   *)
(* integrator gives up, a warning instead of an exception, with the rows   *)
(* it never reached left unset.                                            *)
(*                                                                         *)
(* Arrays are sequences; the Python index i is position i + 1.             *)
(***************************************************************************)
EXTENDS Integers, Sequences, FiniteSets, TLC

VARIABLES
    current_plot_state, \* the notebook global: Unbound, or [I_ext, V, w, t]
    stdout,             \* lines printed by the most recent call
    image,              \* the file written by the most recent plt.savefig, or NoImage
    outcome,            \* how the most recent call ended
    lastCall,           \* arguments and return value of the most recent solve_model
    recall,             \* history: one earlier solve_model call, kept for comparison
    lastGood,           \* history: the most recent interactive_plot whose integration completed
    stiff,              \* environment: the I_ext values on which LSODA gives up
    pc,                 \* harness of the direct analyze_data calls
    argV, argw, argt,   \* arrays handed to analyze_data / returned by the solver stub
    result              \* what the direct analyze_data call produced

vars == <<current_plot_state, stdout, image, outcome, lastCall, recall, lastGood,
          stiff, pc, argV, argw, argt, result>>

harnessVars == <<pc, argV, argw, argt, result>>

----------------------------------------------------------------------------
(* Bounds of the model *)

\* decimal digits kept after the point by the fixed-point representation
ScaleDigits == 3

\* slider positions explored: I_ext = 0, 10, ..., 10 * MaxSlider (the slider stops at 100)
MaxSlider == 1

\* longest array handed to analyze_data directly
MaxLen == 4

\* output row (Python index) after which LSODA gives up on a stiff input
GiveUpRow == 3

Scale == 10 ^ ScaleDigits

----------------------------------------------------------------------------
(* Fixed-point arithmetic *)

Fx(n, d) == (n * Scale) \div d

\* floor(a * b / Scale), split so that no intermediate product overflows
Mul(a, b) == a * (b \div Scale) + (a * (b % Scale)) \div Scale

\* the first n decimal digits of r / b, 0 <= r < b, by long division
RECURSIVE DivFrac(_, _, _)
DivFrac(r, b, n) ==
    IF n = 0 THEN 0
    ELSE ((r * 10) \div b) * 10 ^ (n - 1) + DivFrac((r * 10) % b, b, n - 1)

\* floor(a * Scale / b), b > 0
Div(a, b) == (a \div b) * Scale + DivFrac(a % b, b, ScaleDigits)

Tanh(x) == IF x > Scale THEN Scale ELSE IF x < -Scale THEN -Scale ELSE x

Cosh(x) == Scale + Mul(x, x) \div 2

\* sign with zero counted as positive
SignZeroPositive(x) == IF x >= 0 THEN 1 ELSE -1

Sign(x) == IF x > 0 THEN 1 ELSE IF x < 0 THEN -1 ELSE 0

At(a, i) == a[i + 1]

\* an array held as a value (a function over 1..n written out as a tuple)
Arr(f) == f \o <<>>

----------------------------------------------------------------------------
(* Model equations and parameters *)

default_parameters ==
    [C     |-> Fx(20, 1),
     V_Ca  |-> Fx(120, 1),
     V_K   |-> Fx(-84, 1),
     V_L   |-> Fx(-60, 1),
     g_Ca  |-> Fx(44, 10),
     g_K   |-> Fx(8, 1),
     g_L   |-> Fx(2, 1),
     phi   |-> Fx(4, 100),
     V1    |-> Fx(-12, 10),
     V2    |-> Fx(18, 1),
     V3    |-> Fx(2, 1),
     V4    |-> Fx(30, 1),
     I_ext |-> Fx(1, 10),
     V0    |-> Fx(-70, 1000),
     w0    |-> Fx(0, 1)]

\* the derivative <<dV_dt, dw_dt>>; reads params, writes nothing
morris_lecar(V_w, t, params) ==
    LET V     == V_w[1]
        w     == V_w[2]
        I_ext == params.I_ext
        m_inf == Mul(Fx(1, 2), Scale + Tanh(Div(V - params.V1, params.V2)))
        w_inf == Mul(Fx(1, 2), Scale + Tanh(Div(V - params.V3, params.V4)))
        tau_w == Div(Scale, Mul(params.phi, Cosh(Div(V - params.V3, 2 * params.V4))))
        dV_dt == Div(I_ext
                     - Mul(Mul(params.g_Ca, m_inf), V - params.V_Ca)
                     - Mul(Mul(params.g_K, w), V - params.V_K)
                     - Mul(params.g_L, V - params.V_L),
                     params.C)
        dw_dt == Div(Mul(params.phi, w_inf - w), tau_w)
    IN  <<dV_dt, dw_dt>>

----------------------------------------------------------------------------
(* Simulation driver *)

\* the time grid of solve_model: np.linspace(0, T_END, N_POINTS)
T_END == 5000

N_POINTS == 10000

\* the grid with the endpoint left out, as np.linspace(..., endpoint=False)
linspace_open(start, stop, num) ==
    Arr([k \in 1..num |->
            LET n == (k - 1) * (stop - start)
                q == n \div num
                r == n % num
            IN  (start + q) * Scale + (r * Scale) \div num])

\* np.linspace(start, stop, num), endpoint included; start and stop are whole numbers
linspace(start, stop, num) ==
    IF num = 1 THEN <<start * Scale>>
    ELSE Arr([k \in 1..num |->
                LET n == (k - 1) * (stop - start)
                    q == n \div (num - 1)
                    r == n % (num - 1)
                IN  (start + q) * Scale + (r * Scale) \div (num - 1)])

\* what uninitialised output rows may hold
Garbage == {0, Scale}

\* LSODA on an input it can integrate
Converges == [gaveUp |-> FALSE, fill |-> 0]

\* scipy.integrate.odeint(morris_lecar, y0, t, args=(args,)) as the caller sees it: an
\* array with one row per element of t and one column per component of y0.  When
\* LSODA gives up (lsoda.gaveUp) odeint warns and still returns the array; the
\* rows after GiveUpRow were never written and hold lsoda.fill.
odeint(y0, t, args, lsoda) ==
    LET d == Arr(morris_lecar(y0, t[1], args))
    IN  Arr([k \in 1..Len(t) |->
                IF lsoda.gaveUp /\ k - 1 > GiveUpRow
                THEN <<lsoda.fill, lsoda.fill>>
                ELSE <<y0[1] + Mul(d[1], t[k] - t[1]),
                       y0[2] + Mul(d[2], t[k] - t[1])>>])

\* the parameter set solve_model hands to the solver
solve_params(I_ext) == [default_parameters EXCEPT !.I_ext = I_ext]

solve_model(I_ext, lsoda) ==
    LET t      == linspace(0, T_END, N_POINTS)
        params == solve_params(I_ext)
        initial_conditions == <<params.V0, params.w0>>
        sol    == odeint(initial_conditions, t, params, lsoda)
    IN  [t |-> t,
         V |-> Arr([k \in 1..Len(sol) |-> sol[k][1]]),
         w |-> Arr([k \in 1..Len(sol) |-> sol[k][2]])]

----------------------------------------------------------------------------
(* Data analysis *)

\* numpy's V - w on one-dimensional arrays: elementwise on equal lengths, a
\* length-1 operand is broadcast, any other pair of lengths raises ValueError
Subtract(V, w) ==
    IF Len(V) = Len(w)
    THEN [exc |-> "none", value |-> Arr([k \in 1..Len(V) |-> V[k] - w[k]])]
    ELSE IF Len(V) = 1
    THEN [exc |-> "none", value |-> Arr([k \in 1..Len(w) |-> V[1] - w[k]])]
    ELSE IF Len(w) = 1
    THEN [exc |-> "none", value |-> Arr([k \in 1..Len(V) |-> V[k] - w[1]])]
    ELSE [exc |-> "ValueError", value |-> <<>>]

\* the indices right after the crossing points
CrossIndicesAfter(differences) ==
    LET signs        == Arr([k \in 1..Len(differences) |-> Sign(differences[k])])
        sign_changes == Arr([k \in 1..(Len(signs) - 1) |-> signs[k + 1] - signs[k] # 0])
        indices      == Arr([k \in 1..Len(sign_changes) |-> k])
    IN  SelectSeq(indices, LAMBDA i : At(sign_changes, i - 1))

\* only the changes between strictly positive and strictly negative
CrossIndicesStrict(differences) ==
    LET signs        == Arr([k \in 1..Len(differences) |-> Sign(differences[k])])
        sign_changes == Arr([k \in 1..(Len(signs) - 1) |-> signs[k + 1] * signs[k] < 0])
        indices      == Arr([k \in 1..Len(sign_changes) |-> k - 1])
    IN  SelectSeq(indices, LAMBDA i : At(sign_changes, i))

\* np.where(np.diff(np.sign(differences)) != 0)[0]
CrossIndices(differences) ==
    LET signs        == Arr([k \in 1..Len(differences) |-> Sign(differences[k])])
        sign_changes == Arr([k \in 1..(Len(signs) - 1) |-> signs[k + 1] - signs[k] # 0])
        indices      == Arr([k \in 1..Len(sign_changes) |-> k - 1])
    IN  SelectSeq(indices, LAMBDA i : At(sign_changes, i))

analyze_data(V, w, t) ==
    LET diff == Subtract(V, w)
    IN  IF diff.exc # "none"
        THEN [exc |-> diff.exc, value |-> <<>>]
        ELSE LET cross_indices == CrossIndices(diff.value)
             IN  IF \E k \in 1..Len(cross_indices) :
                        \/ cross_indices[k] >= Len(V)
                        \/ cross_indices[k] >= Len(w)
                        \/ cross_indices[k] >= Len(t)
                 THEN [exc |-> "IndexError", value |-> <<>>]
                 ELSE [exc   |-> "none",
                       value |-> Arr([k \in 1..Len(cross_indices) |->
                                        [V |-> At(V, cross_indices[k]),
                                         w |-> At(w, cross_indices[k]),
                                         t |-> At(t, cross_indices[k])]])]

----------------------------------------------------------------------------
(* Inputs explored *)

\* the slider of the last cell: value default_parameters()['I_ext'], then 0, 10, ...
IExtInputs == {default_parameters.I_ext} \cup {Fx(10 * k, 1) : k \in 0..MaxSlider}

\* the integrator's behaviours on one input
LsodaRuns(I_ext, stiffSet) ==
    IF I_ext \in stiffSet
    THEN {[gaveUp |-> TRUE, fill |-> f] : f \in Garbage}
    ELSE {Converges}

\* solve_model followed by analyze_data on each input and integrator behaviour
\* explored: the values lines 377-378 compute, tabulated so each is evaluated once
Simulations ==
    [I_ext \in IExtInputs |-> [gaveUp \in BOOLEAN |-> [fill \in Garbage |->
        LET ret == solve_model(I_ext, [gaveUp |-> gaveUp, fill |-> fill])
        IN  [t |-> ret.t, V |-> ret.V, w |-> ret.w,
             critical_points |-> analyze_data(ret.V, ret.w, ret.t)]]]]

Simulate(I_ext, lsoda) == Simulations[I_ext][lsoda.gaveUp][lsoda.fill]

----------------------------------------------------------------------------
(* Notebook state *)

\* line 303 declares the global without binding it
Unbound == [bound |-> "unbound", I_ext |-> 0, V |-> <<>>, w |-> <<>>, t |-> <<>>]

NoImage == [written |-> FALSE, path |-> <<>>, panels |-> <<>>]

NoCall == [called |-> FALSE, I_ext |-> 0, params |-> default_parameters,
           completed |-> FALSE, t |-> <<>>, V |-> <<>>, w |-> <<>>]

NoGood == [exists |-> FALSE, I_ext |-> 0, V |-> <<>>, w |-> <<>>, t |-> <<>>]

\* f"{x}" of a non-negative float: whole part, point, fractional digits without
\* trailing zeros (at least one digit)
FloatStr(x) ==
    LET frac   == x % Scale
        digits == [k \in 1..ScaleDigits |-> (frac \div (10 ^ (ScaleDigits - k))) % 10]
        nz     == {k \in 1..ScaleDigits : digits[k] # 0}
        last   == IF nz = {} THEN 1 ELSE CHOOSE k \in nz : \A j \in nz : j <= k
    IN  <<x \div Scale, ".", SubSeq(digits, 1, last)>>

\* f"{filename}_I_ext_{I_ext}.png"
PlotFileName(filename, I_ext) == <<filename, "_I_ext_">> \o FloatStr(I_ext) \o <<".png">>

\* the loop without its test on i
PrintEveryCriticalPoint(critical_points) ==
    Arr([k \in 1..Len(critical_points) |-> <<"Critical point", k - 1, critical_points[k]>>])

\* the loop of lines 412-414 over enumerate(critical_points)
PrintCriticalPoints(critical_points) ==
    LET enumerated == Arr([k \in 1..Len(critical_points) |->
                              [i |-> k - 1, point |-> critical_points[k]]])
        printed    == SelectSeq(enumerated, LAMBDA e : e.i # 0)
    IN  Arr([k \in 1..Len(printed) |-> <<"Critical point", printed[k].i, printed[k].point>>])

\* base names save_plot is called with ('plot' is the button's)
BaseNames == {"plot"}

----------------------------------------------------------------------------
(* Handlers *)

\* interactive_plot from line 378 on, given what solve_model returned at line 377
InteractivePlotBody(I_ext, ret, critical_points) ==
    IF critical_points.exc # "none"
    THEN /\ outcome' = critical_points.exc
         /\ stdout' = <<>>
         /\ UNCHANGED <<current_plot_state, image>>
    ELSE /\ current_plot_state' =
                [bound |-> "tuple", I_ext |-> I_ext, V |-> ret.V, w |-> ret.w, t |-> ret.t]
         /\ stdout' = PrintCriticalPoints(critical_points.value)
         /\ outcome' = "returned"
         /\ UNCHANGED image

interactive_plot(I_ext) ==
    \E lsoda \in LsodaRuns(I_ext, stiff) :
        LET sim == Simulate(I_ext, lsoda)
            call == [called |-> TRUE, I_ext |-> I_ext, params |-> solve_params(I_ext),
                     completed |-> ~lsoda.gaveUp, t |-> sim.t, V |-> sim.V, w |-> sim.w]
        IN  /\ InteractivePlotBody(I_ext, sim, sim.critical_points)
            /\ lastCall' = call
            /\ recall' \in (IF recall.called THEN {recall}
                            ELSE IF lastCall.called THEN {recall, lastCall} ELSE {recall})
            /\ lastGood' = IF lsoda.gaveUp THEN lastGood
                           ELSE [exists |-> TRUE, I_ext |-> I_ext,
                                 V |-> sim.V, w |-> sim.w, t |-> sim.t]
            /\ UNCHANGED <<stiff, harnessVars>>

save_plot(filename) ==
    /\ IF current_plot_state.bound = "unbound"
       THEN /\ outcome' = "NameError"
            /\ stdout' = <<>>
            /\ UNCHANGED image
       ELSE IF current_plot_state.bound = "None"
       THEN /\ outcome' = "returned"
            /\ stdout' = << <<"No plot to save.">> >>
            /\ UNCHANGED image
       ELSE LET I_ext == current_plot_state.I_ext
                V     == current_plot_state.V
                w     == current_plot_state.w
                t     == current_plot_state.t
                name  == PlotFileName(filename, I_ext)
            IN  /\ image' = [written |-> TRUE,
                             path    |-> <<"docs/img/">> \o name,
                             panels  |-> <<[x |-> t, y |-> V],
                                           [x |-> V, y |-> w],
                                           [x |-> t, y |-> w]>>]
                /\ stdout' = << <<"Plot saved as", name>> >>
                /\ outcome' = "returned"
    /\ UNCHANGED <<current_plot_state, lastCall, recall, lastGood, stiff, harnessVars>>

Plot == \E I_ext \in IExtInputs : interactive_plot(I_ext)

Save == \E filename \in BaseNames : save_plot(filename)

Init ==
    /\ current_plot_state = Unbound
    /\ stdout = <<>>
    /\ image = NoImage
    /\ outcome = "none"
    /\ lastCall = NoCall
    /\ recall = NoCall
    /\ lastGood = NoGood
    /\ stiff \in {S \in SUBSET IExtInputs : Cardinality(S) <= 1}
    /\ pc = "notebook"
    /\ argV = <<>> /\ argw = <<>> /\ argt = <<>>
    /\ result = [exc |-> "none", value |-> <<>>]

Next == Plot \/ Save

Spec == Init /\ [][Next]_vars

----------------------------------------------------------------------------
(* Direct calls of analyze_data, and interactive_plot behind a solver stub *)

VValues == {-2, 0, 2}

WValues == {0, 1}

ArraysOver(S) == UNION {[1..n -> S] : n \in 0..MaxLen}

\* time arrays: t[i] = i, so that a record names the index it was sampled at
TimeArrays == {[k \in 1..n |-> k - 1] : n \in 0..MaxLen}

InitAnalyze ==
    /\ current_plot_state = Unbound
    /\ stdout = <<>>
    /\ image = NoImage
    /\ outcome = "none"
    /\ lastCall = NoCall
    /\ recall = NoCall
    /\ lastGood = NoGood
    /\ stiff = {}
    /\ pc = "ready"
    /\ argV \in ArraysOver(VValues)
    /\ argw \in ArraysOver(WValues)
    /\ argt \in TimeArrays
    /\ result = [exc |-> "none", value |-> <<>>]

\* analyze_data(argV, argw, argt) called on its own
CallAnalyzeData ==
    /\ pc = "ready"
    /\ pc' = "analyzed"
    /\ result' = analyze_data(argV, argw, argt)
    /\ outcome' = IF result'.exc = "none" THEN "returned" ELSE result'.exc
    /\ UNCHANGED <<current_plot_state, stdout, image, lastCall, recall, lastGood, stiff,
                   argV, argw, argt>>

\* interactive_plot when solve_model returns (argt, argV, argw): any trajectory of
\* equal-length arrays stands for the solver's output
PlotReturned ==
    /\ pc = "ready"
    /\ Len(argV) = Len(argw) /\ Len(argw) = Len(argt)
    /\ pc' = "plotted"
    /\ LET I_ext == default_parameters.I_ext
           ret   == [t |-> argt, V |-> argV, w |-> argw]
           critical_points == analyze_data(ret.V, ret.w, ret.t)
       IN  /\ InteractivePlotBody(I_ext, ret, critical_points)
           /\ result' = critical_points
           /\ lastCall' = [called |-> TRUE, I_ext |-> I_ext, params |-> solve_params(I_ext),
                           completed |-> TRUE, t |-> ret.t, V |-> ret.V, w |-> ret.w]
           /\ lastGood' = [exists |-> TRUE, I_ext |-> I_ext,
                           V |-> ret.V, w |-> ret.w, t |-> ret.t]
    /\ UNCHANGED <<recall, stiff, argV, argw, argt>>

NextAnalyze == CallAnalyzeData \/ PlotReturned

SpecAnalyze == InitAnalyze /\ [][NextAnalyze]_vars

----------------------------------------------------------------------------
(* Vocabulary of the properties.  The sign classes are spelled out here, apart  *)
(* from Sign, so that the properties do not inherit the extractor's arithmetic. *)

SignClass(x) == IF x < 0 THEN "neg" ELSE IF x = 0 THEN "zero" ELSE "pos"

EqualLengths == Len(argV) = Len(argw) /\ Len(argw) = Len(argt)

\* d[i] = V[i] - w[i] of the arrays handed over
Diff(i) == At(argV, i) - At(argw, i)

\* the indices i with sign(d[i]) # sign(d[i+1])
FlipIndices ==
    {i \in 0..(Len(argV) - 2) : SignClass(Diff(i)) # SignClass(Diff(i + 1))}

RecordAt(i) == [V |-> At(argV, i), w |-> At(argw, i), t |-> At(argt, i)]

HasRecord(i) == \E j \in 1..Len(result.value) : result.value[j] = RecordAt(i)

\* d is zero at k alone: both neighbours exist and are nonzero
IsolatedZero(k) ==
    /\ 1 <= k /\ k <= Len(argV) - 2
    /\ Diff(k) = 0 /\ Diff(k - 1) # 0 /\ Diff(k + 1) # 0

\* how often d goes from strictly positive to strictly negative or back
StrictOrderChanges ==
    LET d       == Arr([k \in 1..Len(argV) |-> Diff(k - 1)])
        nonzero == SelectSeq(d, LAMBDA x : x # 0)
    IN  Cardinality({k \in 1..(Len(nonzero) - 1) : nonzero[k] * nonzero[k + 1] < 0})

\* the most recent call was a save_plot that wrote its file
JustSaved ==
    /\ outcome = "returned"
    /\ Len(stdout) = 1
    /\ stdout[1][1] = "Plot saved as"

----------------------------------------------------------------------------
(* Properties *)

\* C1: on V, w, t of equal length analyze_data returns exactly one record for each
\* index i in 0..n-2 at which sign(V[i]-w[i]) differs from sign(V[i+1]-w[i+1])
\* (zero being a class of its own) and no other record; the record for i is
\* {V[i], w[i], t[i]}, and the records come in strictly increasing index order.
C1_ExactlyTheFlips ==
    (pc = "analyzed" /\ EqualLengths) =>
        /\ result.exc = "none"
        /\ Len(result.value) = Cardinality(FlipIndices)
        /\ \A i \in FlipIndices : HasRecord(i)
        /\ \A k \in 1..Len(result.value) :
               \E i \in FlipIndices : result.value[k] = RecordAt(i)
        /\ \A k \in 1..(Len(result.value) - 1) :
               result.value[k].t < result.value[k + 1].t

\* C1, reached: the trajectory with d = [-1, 1, -1, -3] gives the records of
\* indices 0 and 1 and nothing else.
C1_Witness ==
    /\ pc = "analyzed"
    /\ argV = <<0, 2, 0, -2>> /\ argw = <<1, 1, 1, 1>> /\ argt = <<0, 1, 2, 3>>
    /\ result.value = <<RecordAt(0), RecordAt(1)>>

\* C2, as stated: every record returned is sampled at an index k whose sign
\* differs from the sign at the previous index k-1.
C2_FlipsFromPrevious ==
    (pc = "analyzed" /\ EqualLengths /\ result.exc = "none") =>
        \A j \in 1..Len(result.value) :
            LET k == result.value[j].t
            IN  /\ k >= 1
                /\ SignClass(Diff(k)) # SignClass(Diff(k - 1))

\* C2, amended: every record returned is sampled at an index k whose sign differs
\* from the sign at the next index k+1 (the sample before the flip), and it holds
\* V[k], w[k], t[k].
C2_FlipsToNext ==
    (pc = "analyzed" /\ EqualLengths /\ result.exc = "none") =>
        \A j \in 1..Len(result.value) :
            LET k == result.value[j].t
            IN  /\ 0 <= k /\ k <= Len(argV) - 2
                /\ SignClass(Diff(k)) # SignClass(Diff(k + 1))
                /\ result.value[j] = RecordAt(k)

\* C2, reached: a record sampled at an index whose sign is that of the index before.
C2_Witness ==
    /\ pc = "analyzed" /\ EqualLengths /\ result.exc = "none"
    /\ \E j \in 1..Len(result.value) :
           LET k == result.value[j].t
           IN  k >= 1 /\ SignClass(Diff(k)) = SignClass(Diff(k - 1))

\* C3, as stated: whenever V, w, t do not all have the same length, analyze_data
\* fails with ValueError and returns no sequence.
C3_MismatchRaisesValueError ==
    (pc = "analyzed" /\ ~EqualLengths) =>
        (result.exc = "ValueError" /\ result.value = <<>>)

\* C4, as stated: no (t, V, w) returned by solve_model comes from an integration
\* that did not complete (lastCall holds what solve_model returned).
C4_NoUnconvergedTrajectory ==
    lastCall.called => lastCall.completed

\* C5: every trajectory solve_model returns has t, V, w of length 10000, and t
\* runs from 0 to 5000, strictly increasing and linearly spaced (equal steps up
\* to one unit of the fixed-point representation).
C5_GridShape ==
    lastCall.called =>
        /\ Len(lastCall.t) = 10000
        /\ Len(lastCall.V) = 10000
        /\ Len(lastCall.w) = 10000
        /\ lastCall.t[1] = 0
        /\ lastCall.t[10000] = 5000 * Scale
        /\ \A k \in 1..9999 :
               LET step == lastCall.t[k + 1] - lastCall.t[k]
               IN  /\ step > 0
                   /\ step \in {(5000 * Scale) \div 9999, (5000 * Scale) \div 9999 + 1}

\* C5, reached: a trajectory returned for a slider value, by an integration that
\* gave up, has the full shape as well.
C5_Witness ==
    /\ lastCall.called
    /\ ~lastCall.completed
    /\ lastCall.I_ext # default_parameters.I_ext
    /\ Len(lastCall.V) = 10000

\* C6, as stated: two solve_model calls with the same I_ext return identical
\* (t, V, w) (recall holds an earlier call, lastCall the latest).
C6_SameArgumentSameResult ==
    (recall.called /\ lastCall.called /\ recall.I_ext = lastCall.I_ext) =>
        /\ recall.t = lastCall.t
        /\ recall.V = lastCall.V
        /\ recall.w = lastCall.w

\* What remains of C6 when no integration gives up: equal arguments give equal
\* results, and the parameter set handed to the solver is the default one with
\* I_ext alone replaced.
SameArgumentSameResultWhenConverged ==
    (recall.called /\ lastCall.called /\ recall.completed /\ lastCall.completed
        /\ recall.I_ext = lastCall.I_ext) =>
        /\ recall.t = lastCall.t /\ recall.V = lastCall.V /\ recall.w = lastCall.w
        /\ lastCall.params.I_ext = lastCall.I_ext
        /\ \A f \in DOMAIN default_parameters \ {"I_ext"} :
               lastCall.params[f] = default_parameters[f]

\* C7, as stated: a save_plot call that writes an image uses the I_ext and the
\* arrays of the most recent interactive_plot call whose simulation completed,
\* and names the file <basename>_I_ext_<that I_ext>.png.
C7_SavesLastCompletedRun ==
    (JustSaved /\ lastGood.exists) =>
        /\ image.written
        /\ \E filename \in BaseNames :
               image.path = <<"docs/img/", filename, "_I_ext_">>
                            \o FloatStr(lastGood.I_ext) \o <<".png">>
        /\ image.panels = <<[x |-> lastGood.t, y |-> lastGood.V],
                            [x |-> lastGood.V, y |-> lastGood.w],
                            [x |-> lastGood.t, y |-> lastGood.w]>>

\* What the code does instead of C7: a save_plot call that writes an image uses
\* the snapshot of the most recent interactive_plot call, converged or not.
SavesCurrentSnapshot ==
    JustSaved =>
        /\ image.written
        /\ current_plot_state.bound = "tuple"
        /\ current_plot_state.I_ext = lastCall.I_ext
        /\ current_plot_state.V = lastCall.V
        /\ \E filename \in BaseNames :
               image.path = <<"docs/img/", filename, "_I_ext_">>
                            \o FloatStr(current_plot_state.I_ext) \o <<".png">>
        /\ image.panels = <<[x |-> current_plot_state.t, y |-> current_plot_state.V],
                            [x |-> current_plot_state.V, y |-> current_plot_state.w],
                            [x |-> current_plot_state.t, y |-> current_plot_state.w]>>

\* save_plot never replaces the snapshot
SaveKeepsSnapshot ==
    [][(\E filename \in BaseNames : save_plot(filename))
          => current_plot_state' = current_plot_state]_vars

\* C8, as stated: save_plot called while the snapshot has never been assigned
\* prints 'No plot to save.', writes no file and returns normally.
C8_NothingToSaveIsReported ==
    (current_plot_state.bound = "unbound" /\ outcome # "none") =>
        /\ outcome = "returned"
        /\ stdout = << <<"No plot to save.">> >>
        /\ ~image.written

\* C9: interactive_plot prints every critical point but the first, in order, each
\* labelled with its position in the sequence (1, 2, ...); with zero or one
\* crossing it prints nothing; analyze_data itself still returns the earliest
\* crossing as its first entry (result holds what analyze_data returned).
C9_ReportsAllButFirst ==
    pc = "plotted" =>
        /\ outcome = "returned"
        /\ Len(stdout) = (IF Len(result.value) = 0 THEN 0 ELSE Len(result.value) - 1)
        /\ \A k \in 1..Len(stdout) :
               stdout[k] = <<"Critical point", k, result.value[k + 1]>>
        /\ \A i \in FlipIndices :
               (\A j \in FlipIndices : i <= j) =>
                   (Len(result.value) >= 1 /\ result.value[1] = RecordAt(i))

\* C9, reached: a trajectory with three crossings, of which two are printed.
C9_Witness ==
    /\ pc = "plotted"
    /\ Len(result.value) = 3
    /\ Len(stdout) = 2

\* C10: when d is exactly 0 at a single interior sample k and nonzero at both
\* neighbours, analyze_data returns the records of indices k-1 and k, whether the
\* neighbours have opposite signs or the same sign.
C10_ZeroSampleCountsTwice ==
    (pc = "analyzed" /\ EqualLengths) =>
        \A k \in 1..(Len(argV) - 2) :
            IsolatedZero(k) => (HasRecord(k - 1) /\ HasRecord(k))

\* C10, reached: d touches zero between two positive samples, and more records
\* come back than d has changes between strictly positive and strictly negative.
C10_Witness ==
    /\ pc = "analyzed" /\ EqualLengths
    /\ \E k \in 1..(Len(argV) - 2) :
           IsolatedZero(k) /\ Diff(k - 1) > 0 /\ Diff(k + 1) > 0
    /\ Len(result.value) > StrictOrderChanges

====
